---- MODULE Spec2Model ----
(***************************************************************************)
(* Model of controllers/kustomization_generator.go:                        *)
(*   - secureBuildKustomization: the process-wide kustomizeBuildMutex, the  *)
(*     deferred Unlock and the deferred recover around krusty's Run;        *)
(*   - KustomizeGenerator.WriteFile / generateKustomization: the scan of    *)
(*     the target directory, the generated kustomization.yaml and the       *)
(*     overrides merged into it.                                            *)
(* Storage operations on paths that exist are taken to succeed; a read of  *)
(* a path that does not exist fails, as os.ReadFile does.                   *)
(***************************************************************************)
EXTENDS Integers, Sequences, FiniteSets, TLC

\* ------------------------------------------------------------------------
\* Bounds
\* ------------------------------------------------------------------------

\* Number of secureBuildKustomization calls the workers make in all.
MaxCalls == 3

\* Number of WriteFile calls made on the target directory.
MaxWriteCalls == 2

\* Longest list of image overrides in the Kustomization spec.
MaxImages == 2

\* The concurrent reconcile workers calling secureBuildKustomization.
Workers == {"w1", "w2"}

VARIABLES
    kustomizeBuildMutex, \* "unlocked" | "locked": the sync.Mutex
    pc,                  \* worker -> position inside secureBuildKustomization
    args,                \* worker -> arguments of the call in progress
    fs,                  \* worker -> the filesystem boundary it built
    result,              \* worker -> the named result (resmap.ResMap)
    err,                 \* worker -> the named result err
    defers,              \* worker -> stack of deferred calls (last is top)
    panicking,           \* worker -> the panic value in flight, or NoPanic
    calls,               \* calls started so far, by all workers
    crashed,             \* a panic left a goroutine: the process is gone
    everHeld,            \* history: worker -> the current call held the mutex
    panicked,            \* history: worker -> the current call's engine panicked
    recoveredOnce,       \* history: some call recovered an engine panic
    afterPanic           \* history: worker -> its call began after such a recovery

VARIABLES
    disk,        \* path -> what is on disk there
    kdoc,        \* descriptor filename -> the document in dirPath/<filename>
    kgSpec,      \* kg.kustomization.Spec, the override spec
    wpc,         \* position inside WriteFile
    kus,         \* WriteFile's local kus
    imgIdx,      \* the image loop's position in Spec.Images
    werr,        \* the error WriteFile returned
    wcalls,      \* WriteFile calls started so far
    diskBefore,  \* history: disk when the current call began
    kdocBefore,  \* history: kdoc when the current call began
    scanned,     \* history: the current call ran the scan
    generated,   \* history: kustomization.yaml was generated from a scan
    prevOk,      \* history: the call before the current one succeeded
    imgOp        \* history: what the last image step did

genVars == <<disk, kdoc, kgSpec, wpc, kus, imgIdx, werr, wcalls, diskBefore,
             kdocBefore, scanned, generated, prevOk, imgOp>>

buildVars == <<kustomizeBuildMutex, pc, args, fs, result, err, defers,
               panicking, calls, crashed, everHeld, panicked, recoveredOnce,
               afterPanic>>

\* ------------------------------------------------------------------------
\* The target directory
\* ------------------------------------------------------------------------

\* konfig.RecognizedKustomizationFileNames() and DefaultKustomizationFileName()
RecognizedKustomizationFileNames == <<"kustomization.yaml", "kustomization.yml", "Kustomization">>

DefaultKustomizationFileName == RecognizedKustomizationFileNames[1]

KustomizationNames ==
    {RecognizedKustomizationFileNames[i] : i \in 1..Len(RecognizedKustomizationFileNames)}

\* kustypes.KustomizationVersion, kustypes.KustomizationKind
KustomizationVersion == "kustomize.config.k8s.io/v1beta1"
KustomizationKind == "Kustomization"

\* filepath.Join(path, name)
Join(path, name) == Append(path, name)

\* kg.root, and dirPath (already absolute) inside it.
Root == <<"tmp", "src">>
Abs == Join(Root, "deploy")
KFile == Join(Abs, DefaultKustomizationFileName)

\* The names a directory may hold, in the lexical order filepath.Walk visits
\* them in.
ChildNames(path) ==
    IF path = Abs
    THEN <<"Kustomization", "README.md", "a.yaml", "base", "kustomization.yaml",
           "kustomization.yml">>
    ELSE IF path = Join(Abs, "base")
    THEN <<"b.yaml", "deep", "kustomization.yml">>
    ELSE IF path = Join(Join(Abs, "base"), "deep")
    THEN <<"Kustomization", "c.yml">>
    ELSE <<>>

Dirs == {Abs, Join(Abs, "base"), Join(Join(Abs, "base"), "deep")}

Paths == {Abs} \cup
         UNION {{Join(d, ChildNames(d)[i]) : i \in 1..Len(ChildNames(d))} : d \in Dirs}

\* filepath.Ext(path): the suffix from the last dot of the last element.
Ext(path) ==
    LET name == path[Len(path)] IN
    IF name \in {"a.yaml", "b.yaml", "kustomization.yaml"} THEN ".yaml"
    ELSE IF name \in {"c.yml", "kustomization.yml"} THEN ".yml"
    ELSE IF name = "README.md" THEN ".md"
    ELSE ""

\* What disk holds at a path: "absent", "dir", or a file: "resources" (YAML
\* that decodes to Kubernetes objects), "malformed" (YAML that does not),
\* "descriptor" (a kustomization file), "other".
Entry(d, path) == IF path \in DOMAIN d THEN d[path] ELSE "absent"

\* fs.Exists(kpath) && !fs.IsDir(kpath)
IsFile(d, path) == Entry(d, path) \notin {"absent", "dir"}

\* Lines 141-145 and 161-166: the directory directly holds a file under a
\* recognized kustomization file name.
HasKustomizationFile(d, path) ==
    \E i \in 1..Len(RecognizedKustomizationFileNames) :
        IsFile(d, Join(path, RecognizedKustomizationFileNames[i]))

\* ------------------------------------------------------------------------
\* Documents and errors
\* ------------------------------------------------------------------------

NoErr == [kind |-> "none", path |-> <<>>]

KusFields == {"apiVersion", "kind", "namespace", "resources", "patches",
              "patchesStrategicMerge", "patchesJson6902", "images"}

StringFields == {"apiVersion", "kind", "namespace"}

Zero(k) == IF k \in StringFields THEN "" ELSE <<>>

\* kustypes.Kustomization{}
ZeroKus == [k \in KusFields |-> Zero(k)]

\* Lines 65-70 and 208-213: kus with its TypeMeta set.
NewKus == [ZeroKus EXCEPT !["apiVersion"] = KustomizationVersion,
                          !["kind"] = KustomizationKind]

\* A file's YAML document: whether it parses, the keys it holds and their
\* values. An empty file holds no key.
EmptyDoc == [valid |-> TRUE, keys |-> {}, val |-> ZeroKus]

\* yaml.Marshal(kus): every field is omitempty.
Marshal(k) == [valid |-> TRUE, keys |-> {f \in KusFields : k[f] # Zero(f)}, val |-> k]

\* yaml.Unmarshal(data, &kus): the keys of the document overwrite kus.
Unmarshal(doc, into) ==
    [f \in KusFields |-> IF f \in doc.keys THEN doc.val[f] ELSE into[f]]

\* json.Marshal(m.Patch)
JsonMarshal(ops) == <<"json">> \o ops

\* strings.Replace(s, old, new, 1) on paths.
Replace(s, old, new) ==
    LET hits == {i \in 1..(Len(s) - Len(old) + 1) : SubSeq(s, i, i + Len(old) - 1) = old} IN
    IF hits = {} THEN s
    ELSE LET i == CHOOSE h \in hits : \A g \in hits : h <= g IN
         SubSeq(s, 1, i - 1) \o new \o SubSeq(s, i + Len(old), Len(s))

\* ------------------------------------------------------------------------
\* generateKustomization
\* ------------------------------------------------------------------------

\* Lines 158-168: whether the walk, at a directory, records it and returns
\* filepath.SkipDir.
NeverSkipDir(d, path) == FALSE

SkipDir(d, path) == HasKustomizationFile(d, path)

\* Lines 170-184: the walk's callback at a file.
VisitFile(d, path, acc) ==
    IF Ext(path) # ".yaml" /\ Ext(path) # ".yml" THEN acc
    ELSE IF Entry(d, path) # "resources"
    THEN [acc EXCEPT !.err = [kind |-> "failed to decode Kubernetes YAML from", path |-> path]]
    ELSE [acc EXCEPT !.paths = Append(@, path)]

\* fs.Walk below a directory: its entries in lexical order, depth first; the
\* first error ends the walk.
RECURSIVE WalkEntries(_, _, _, _)
WalkEntries(d, dir, names, acc) ==
    IF acc.err # NoErr \/ names = <<>> THEN acc
    ELSE LET path == Join(dir, Head(names))
             e == Entry(d, path) IN
         IF e = "absent" THEN WalkEntries(d, dir, Tail(names), acc)
         ELSE IF e = "dir"
         THEN IF SkipDir(d, path)
              THEN WalkEntries(d, dir, Tail(names), [acc EXCEPT !.paths = Append(@, path)])
              ELSE WalkEntries(d, dir, Tail(names), WalkEntries(d, path, ChildNames(path), acc))
         ELSE WalkEntries(d, dir, Tail(names), VisitFile(d, path, acc))

\* Lines 147-187: scan(base); base itself is skipped.
scan(d, base) == WalkEntries(d, base, ChildNames(base), [paths |-> <<>>, err |-> NoErr])

\* Lines 199-226: the descriptor written from the scanned files.
GeneratedKus(files) ==
    [NewKus EXCEPT !["resources"] =
        [i \in 1..Len(files) |-> Replace(files[i], Abs, <<".">>)]]

\* A generateKustomization that creates kustomization.yaml before scanning.
generateCreateFirst(d, kd) ==
    IF HasKustomizationFile(d, Abs)
    THEN [disk |-> d, kdoc |-> kd, err |-> NoErr, scanned |-> FALSE]
    ELSE LET s == scan(d, Abs)
             created == [d EXCEPT ![KFile] = "descriptor"] IN
         IF s.err # NoErr
         THEN [disk |-> created,
               kdoc |-> [kd EXCEPT ![DefaultKustomizationFileName] = EmptyDoc],
               err |-> s.err, scanned |-> TRUE]
         ELSE [disk |-> created,
               kdoc |-> [kd EXCEPT ![DefaultKustomizationFileName] =
                                      Marshal(GeneratedKus(s.paths))],
               err |-> NoErr, scanned |-> TRUE]

\* A generateKustomization that scans and writes whether or not a
\* kustomization file is there.
generateAlways(d, kd) ==
    LET s == scan([d EXCEPT ![KFile] = "absent"], Abs) IN
    IF s.err # NoErr
    THEN [disk |-> d, kdoc |-> kd, err |-> s.err, scanned |-> TRUE]
    ELSE [disk |-> [d EXCEPT ![KFile] = "descriptor"],
          kdoc |-> [kd EXCEPT ![DefaultKustomizationFileName] =
                                 Marshal(GeneratedKus(s.paths))],
          err |-> NoErr, scanned |-> TRUE]

\* Lines 133-227: nothing to do with a kustomization file in dirPath;
\* otherwise scan, and only after a scan without error create and write
\* dirPath/kustomization.yaml.
generateKustomization(d, kd) ==
    IF HasKustomizationFile(d, Abs)
    THEN [disk |-> d, kdoc |-> kd, err |-> NoErr, scanned |-> FALSE]
    ELSE LET s == scan(d, Abs) IN
         IF s.err # NoErr
         THEN [disk |-> d, kdoc |-> kd, err |-> s.err, scanned |-> TRUE]
         ELSE [disk |-> [d EXCEPT ![KFile] = "descriptor"],
               kdoc |-> [kd EXCEPT ![DefaultKustomizationFileName] =
                                      Marshal(GeneratedKus(s.paths))],
               err |-> NoErr, scanned |-> TRUE]

\* ------------------------------------------------------------------------
\* WriteFile: the overrides
\* ------------------------------------------------------------------------

\* Lines 229-241: adaptSelector(&m.Target).
adaptSelector(selector) ==
    [gvk |-> [group |-> selector.group, kind |-> selector.kind,
              version |-> selector.version],
     name |-> selector.name,
     namespace |-> selector.namespace,
     labelSelector |-> selector.labelSelector,
     annotationSelector |-> selector.annotationSelector]

\* A checkKustomizeImageExists that finds nothing.
checkImageNeverExists(images, imageName) == [exists |-> FALSE, index |-> -1]

\* Lines 123-131: the first index (from 0) of an image of that name.
checkKustomizeImageExists(images, imageName) ==
    LET hits == {i \in 1..Len(images) : images[i].name = imageName} IN
    IF hits = {} THEN [exists |-> FALSE, index |-> -1]
    ELSE [exists |-> TRUE, index |-> (CHOOSE h \in hits : \A g \in hits : h <= g) - 1]

\* Lines 103-113: one pass of the image loop.
ApplyImage(images, image) ==
    LET newImage == [name |-> image.name, newName |-> image.newName,
                     newTag |-> image.newTag, digest |-> image.digest]
        found == checkKustomizeImageExists(images, image.name) IN
    IF found.exists
    THEN [images EXCEPT ![found.index + 1] = newImage]
    ELSE Append(images, newImage)

\* Lines 76-100: the namespace and the three kinds of patches.
ApplyNamespaceAndPatches(k, spec) ==
    [k EXCEPT
       !["namespace"] = IF spec.targetNamespace # "" THEN spec.targetNamespace ELSE @,
       !["patches"] = @ \o [i \in 1..Len(spec.patches) |->
            [patch |-> spec.patches[i].patch,
             target |-> adaptSelector(spec.patches[i].target)]],
       !["patchesStrategicMerge"] = @ \o [i \in 1..Len(spec.patchesStrategicMerge) |->
            spec.patchesStrategicMerge[i].raw],
       !["patchesJson6902"] = @ \o [i \in 1..Len(spec.patchesJSON6902) |->
            [patch |-> JsonMarshal(spec.patchesJSON6902[i].patch),
             target |-> adaptSelector(spec.patchesJSON6902[i].target)]]]

\* ------------------------------------------------------------------------
\* secureBuildKustomization
\* ------------------------------------------------------------------------

NoPanic == "no panic"
Nil == "nil"

\* An error is the sequence of the parts of its message; no error is empty.
NoError == <<>>

\* The (root, dirPath) pairs the builder is called with: the three test
\* directories, and a root that does not exist on disk.
BuildTargets ==
    { [root |-> "testdata/remote",  dirPath |-> "testdata/remote"],
      [root |-> "testdata/panic",   dirPath |-> "testdata/panic"],
      [root |-> "testdata/relbase",
       dirPath |-> "testdata/relbase/clusters/staging/flux-system"],
      [root |-> "testdata/missing", dirPath |-> "testdata/missing"] }

ExistingRoots == {"testdata/remote", "testdata/panic", "testdata/relbase"}

\* Directories whose kustomization.yaml references a remote base.
RemoteBaseDirs == {"testdata/remote"}

\* securefs.MakeFsOnDiskSecureBuild / securefs.MakeFsOnDiskSecure: the
\* boundary built for root, or an error when root cannot be confined.
MakeFsStrictForRemote(root, allowRemoteBases) ==
    IF root \notin ExistingRoots THEN [err |-> <<"invalid root">>, fs |-> Nil]
    ELSE [err |-> NoError, fs |-> "MakeFsOnDiskSecure"]

MakeFs(root, allowRemoteBases) ==
    IF root \notin ExistingRoots THEN [err |-> <<"invalid root">>, fs |-> Nil]
    ELSE IF allowRemoteBases
         THEN [err |-> NoError, fs |-> "MakeFsOnDiskSecureBuild"]
         ELSE [err |-> NoError, fs |-> "MakeFsOnDiskSecure"]

\* What k.Run(fs, dirPath) does on the test directories: a remote base loads
\* only through the remote-capable boundary, testdata/panic makes kustomize
\* panic, the relative-base overlay builds.
KustomizerRun(fsys, dirPath, doLegacyResourceSort) ==
    IF dirPath = "testdata/panic"
    THEN [kind |-> "panic", value |-> "runtime error: invalid memory address"]
    ELSE IF dirPath \in RemoteBaseDirs /\ fsys # "MakeFsOnDiskSecureBuild"
    THEN [kind |-> "error", value |-> "remote base denied"]
    ELSE [kind |-> "ok",
          value |-> IF doLegacyResourceSort THEN "resmap/legacy" ELSE "resmap/none"]

\* Whether a call of Lock may proceed.
LockAlwaysProceeds(m) == TRUE

MutexLockable(m) == m = "unlocked"

\* The mutex after Unlock.
UnlockNoOp == "locked"

MutexAfterUnlock == "unlocked"

\* The calls deferred after Lock, in the order they are deferred; they run
\* last-deferred first.
DeferRecoverOnly == <<"recover">>

DeferUnlockOnly == <<"Unlock">>

DeferredCalls == <<"Unlock", "recover">>

\* fmt.Errorf("recovered from kustomize build panic: %v", r)
RecoveredError(r) == <<"recovered from kustomize build panic: ", r>>

InCall(w) == pc[w] \in {"mkfs", "lock", "run", "defers"}

\* The worker has locked the mutex and not yet run its deferred Unlock.
Holding(w) == everHeld[w] /\ \E i \in 1..Len(defers[w]) : defers[w][i] = "Unlock"

\* The caller enters secureBuildKustomization. terminates says whether the
\* engine invocation of this call returns (a remote fetch may never do).
Call(w) ==
    /\ ~crashed
    /\ UNCHANGED genVars
    /\ pc[w] \in {"idle", "returned"}
    /\ calls < MaxCalls
    /\ \E t \in BuildTargets, allow \in BOOLEAN, legacy \in BOOLEAN,
          term \in BOOLEAN :
         /\ (~term) => (allow /\ t.dirPath \in RemoteBaseDirs)
         /\ args' = [args EXCEPT ![w] =
                [root |-> t.root, dirPath |-> t.dirPath,
                 allowRemoteBases |-> allow, doLegacyResourceSort |-> legacy,
                 terminates |-> term]]
    /\ pc' = [pc EXCEPT ![w] = "mkfs"]
    /\ calls' = calls + 1
    /\ fs' = [fs EXCEPT ![w] = Nil]
    /\ result' = [result EXCEPT ![w] = Nil]
    /\ err' = [err EXCEPT ![w] = NoError]
    /\ everHeld' = [everHeld EXCEPT ![w] = FALSE]
    /\ panicked' = [panicked EXCEPT ![w] = FALSE]
    /\ afterPanic' = [afterPanic EXCEPT ![w] = recoveredOnce]
    /\ UNCHANGED <<kustomizeBuildMutex, defers, panicking, crashed, recoveredOnce>>

\* Lines 253-266: build the boundary, return its error without locking.
CreateFs(w) ==
    /\ ~crashed
    /\ UNCHANGED genVars
    /\ pc[w] = "mkfs"
    /\ LET r == MakeFs(args[w].root, args[w].allowRemoteBases) IN
         IF r.err # NoError
         THEN /\ err' = [err EXCEPT ![w] = r.err]
              /\ pc' = [pc EXCEPT ![w] = "returned"]
              /\ UNCHANGED fs
         ELSE /\ fs' = [fs EXCEPT ![w] = r.fs]
              /\ pc' = [pc EXCEPT ![w] = "lock"]
              /\ UNCHANGED err
    /\ UNCHANGED <<kustomizeBuildMutex, args, result, defers, panicking, calls,
                   crashed, everHeld, panicked, recoveredOnce, afterPanic>>

\* Lines 270-280: Lock blocks until the mutex is free; Unlock and the
\* recovering closure are deferred.
Lock(w) ==
    /\ ~crashed
    /\ UNCHANGED genVars
    /\ pc[w] = "lock"
    /\ MutexLockable(kustomizeBuildMutex)
    /\ kustomizeBuildMutex' = "locked"
    /\ defers' = [defers EXCEPT ![w] = DeferredCalls]
    /\ everHeld' = [everHeld EXCEPT ![w] = TRUE]
    /\ pc' = [pc EXCEPT ![w] = "run"]
    /\ UNCHANGED <<args, fs, result, err, panicking, calls, crashed, panicked,
                   recoveredOnce, afterPanic>>

\* Lines 282-289: the engine runs and returns a result, an error, or panics.
Run(w) ==
    /\ ~crashed
    /\ UNCHANGED genVars
    /\ pc[w] = "run"
    /\ args[w].terminates
    /\ LET o == KustomizerRun(fs[w], args[w].dirPath, args[w].doLegacyResourceSort) IN
         /\ result' = [result EXCEPT ![w] = IF o.kind = "ok" THEN o.value ELSE Nil]
         /\ err' = [err EXCEPT ![w] = IF o.kind = "error" THEN <<o.value>> ELSE NoError]
         /\ panicking' = [panicking EXCEPT ![w] =
                             IF o.kind = "panic" THEN o.value ELSE NoPanic]
         /\ panicked' = [panicked EXCEPT ![w] = o.kind = "panic"]
    /\ pc' = [pc EXCEPT ![w] = "defers"]
    /\ UNCHANGED <<kustomizeBuildMutex, args, fs, defers, calls, crashed,
                   everHeld, recoveredOnce, afterPanic>>

\* The deferred call on top of the stack runs: the closure of lines 276-280
\* stops a panic in flight and sets err; Unlock releases the mutex.
RunDeferred(w) ==
    /\ ~crashed
    /\ UNCHANGED genVars
    /\ pc[w] = "defers"
    /\ defers[w] # <<>>
    /\ LET n == Len(defers[w])
           d == defers[w][n] IN
         /\ defers' = [defers EXCEPT ![w] = SubSeq(@, 1, n - 1)]
         /\ IF d = "recover"
            THEN /\ IF panicking[w] # NoPanic
                    THEN /\ err' = [err EXCEPT ![w] = RecoveredError(panicking[w])]
                         /\ panicking' = [panicking EXCEPT ![w] = NoPanic]
                         /\ recoveredOnce' = TRUE
                    ELSE UNCHANGED <<err, panicking, recoveredOnce>>
                 /\ UNCHANGED kustomizeBuildMutex
            ELSE /\ kustomizeBuildMutex' = MutexAfterUnlock
                 /\ UNCHANGED <<err, panicking, recoveredOnce>>
    /\ UNCHANGED <<pc, args, fs, result, calls, crashed, everHeld, panicked,
                   afterPanic>>

\* All deferred calls ran: the call returns to its caller, or, with a panic
\* still in flight, the panic leaves the goroutine and ends the process.
Return(w) ==
    /\ ~crashed
    /\ UNCHANGED genVars
    /\ pc[w] = "defers"
    /\ defers[w] = <<>>
    /\ IF panicking[w] # NoPanic
       THEN crashed' = TRUE /\ UNCHANGED pc
       ELSE pc' = [pc EXCEPT ![w] = "returned"] /\ UNCHANGED crashed
    /\ UNCHANGED <<kustomizeBuildMutex, args, fs, result, err, defers, panicking,
                   calls, everHeld, panicked, recoveredOnce, afterPanic>>

NoArgs == [root |-> Nil, dirPath |-> Nil, allowRemoteBases |-> FALSE,
           doLegacyResourceSort |-> FALSE, terminates |-> TRUE]

InitBuild ==
    /\ kustomizeBuildMutex = "unlocked"
    /\ pc = [w \in Workers |-> "idle"]
    /\ args = [w \in Workers |-> NoArgs]
    /\ fs = [w \in Workers |-> Nil]
    /\ result = [w \in Workers |-> Nil]
    /\ err = [w \in Workers |-> NoError]
    /\ defers = [w \in Workers |-> <<>>]
    /\ panicking = [w \in Workers |-> NoPanic]
    /\ calls = 0
    /\ crashed = FALSE
    /\ everHeld = [w \in Workers |-> FALSE]
    /\ panicked = [w \in Workers |-> FALSE]
    /\ recoveredOnce = FALSE
    /\ afterPanic = [w \in Workers |-> FALSE]

vars == <<buildVars, genVars>>

\* ------------------------------------------------------------------------
\* WriteFile
\* ------------------------------------------------------------------------

\* NewGenerator and the caller enter WriteFile(dirPath).
WriteFileCall ==
    /\ wpc \in {"idle", "done"}
    /\ wcalls < MaxWriteCalls
    /\ wpc' = "generate"
    /\ wcalls' = wcalls + 1
    /\ diskBefore' = disk
    /\ kdocBefore' = kdoc
    /\ prevOk' = (wpc = "done" /\ werr = NoErr)
    /\ werr' = NoErr
    /\ scanned' = FALSE
    /\ imgOp' = "none"
    /\ UNCHANGED <<disk, kdoc, kgSpec, kus, imgIdx, generated>>
    /\ UNCHANGED buildVars

\* Lines 54-56: kg.generateKustomization(dirPath), whose error is returned.
Generate ==
    /\ wpc = "generate"
    /\ LET r == generateKustomization(disk, kdoc) IN
         /\ disk' = r.disk
         /\ kdoc' = r.kdoc
         /\ scanned' = r.scanned
         /\ generated' = IF r.scanned /\ r.err = NoErr THEN TRUE ELSE generated
         /\ werr' = r.err
         /\ wpc' = IF r.err = NoErr THEN "read" ELSE "done"
    /\ UNCHANGED <<kgSpec, kus, imgIdx, wcalls, diskBefore, kdocBefore, prevOk, imgOp>>
    /\ UNCHANGED buildVars

\* Lines 58-100: read and decode dirPath/kustomization.yaml, then set the
\* namespace and append the patches.
ReadAndPatch ==
    /\ wpc = "read"
    /\ IF ~IsFile(disk, KFile)
       THEN /\ werr' = [kind |-> "no such file or directory", path |-> KFile]
            /\ wpc' = "done"
            /\ UNCHANGED <<kus, imgIdx>>
       ELSE IF ~kdoc[DefaultKustomizationFileName].valid
       THEN /\ werr' = [kind |-> "error unmarshaling", path |-> KFile]
            /\ wpc' = "done"
            /\ UNCHANGED <<kus, imgIdx>>
       ELSE /\ kus' = ApplyNamespaceAndPatches(
                         Unmarshal(kdoc[DefaultKustomizationFileName], NewKus), kgSpec)
            /\ imgIdx' = 1
            /\ wpc' = "images"
            /\ UNCHANGED werr
    /\ UNCHANGED <<disk, kdoc, kgSpec, wcalls, diskBefore, kdocBefore, scanned,
                   generated, prevOk, imgOp>>
    /\ UNCHANGED buildVars

\* Lines 102-114: one pass of the loop over Spec.Images.
ImageStep ==
    /\ wpc = "images"
    /\ imgIdx <= Len(kgSpec.images)
    /\ kus' = [kus EXCEPT !["images"] = ApplyImage(@, kgSpec.images[imgIdx])]
    /\ imgOp' = IF checkKustomizeImageExists(kus["images"], kgSpec.images[imgIdx].name).exists
                THEN "replaced" ELSE "appended"
    /\ imgIdx' = imgIdx + 1
    /\ UNCHANGED <<disk, kdoc, kgSpec, wpc, werr, wcalls, diskBefore, kdocBefore,
                   scanned, generated, prevOk>>
    /\ UNCHANGED buildVars

\* Lines 116-120: marshal kus and write it over dirPath/kustomization.yaml.
WriteBack ==
    /\ wpc = "images"
    /\ imgIdx > Len(kgSpec.images)
    /\ kdoc' = [kdoc EXCEPT ![DefaultKustomizationFileName] = Marshal(kus)]
    /\ disk' = [disk EXCEPT ![KFile] = "descriptor"]
    /\ kus' = ZeroKus
    /\ imgIdx' = 0
    /\ werr' = NoErr
    /\ wpc' = "done"
    /\ UNCHANGED <<kgSpec, wcalls, diskBefore, kdocBefore, scanned, generated,
                   prevOk, imgOp>>
    /\ UNCHANGED buildVars

\* ------------------------------------------------------------------------
\* Inputs of WriteFile
\* ------------------------------------------------------------------------

Selector == [group |-> "apps", kind |-> "Deployment", version |-> "v1",
             name |-> "app", namespace |-> "", labelSelector |-> "app=web",
             annotationSelector |-> ""]

PatchChoices ==
    { [patches |-> <<>>, patchesStrategicMerge |-> <<>>, patchesJSON6902 |-> <<>>],
      [patches |-> <<[patch |-> "inline patch", target |-> Selector]>>,
       patchesStrategicMerge |-> <<>>,
       patchesJSON6902 |-> <<[patch |-> <<"replace /spec/replicas">>, target |-> Selector]>>],
      [patches |-> <<>>, patchesStrategicMerge |-> <<[raw |-> "strategic patch"]>>,
       patchesJSON6902 |-> <<>>] }

ImageOverrides ==
    { [name |-> "nginx", newName |-> "", newTag |-> "1.25", digest |-> ""],
      [name |-> "nginx", newName |-> "mirror/nginx", newTag |-> "", digest |-> "sha256:abc"],
      [name |-> "redis", newName |-> "", newTag |-> "7", digest |-> ""] }

ImageLists == UNION {[1..n -> ImageOverrides] : n \in 0..MaxImages}

Specs ==
    { [targetNamespace |-> ns, patches |-> pc0.patches,
       patchesStrategicMerge |-> pc0.patchesStrategicMerge,
       patchesJSON6902 |-> pc0.patchesJSON6902, images |-> imgs] :
         ns \in {"", "prod"}, pc0 \in PatchChoices, imgs \in ImageLists }

OldImage(name, tag) == [name |-> name, newName |-> "", newTag |-> tag, digest |-> ""]

\* Hand-written descriptors found in the target directory.
Doc(keys, k) == [valid |-> TRUE, keys |-> keys, val |-> k]

PlainDoc ==
    Doc({"resources"}, [ZeroKus EXCEPT !["resources"] = <<<<".", "a.yaml">>>>])

ImageDoc ==
    Doc({"apiVersion", "kind", "resources", "images"},
        [NewKus EXCEPT !["resources"] = <<<<".", "a.yaml">>>>,
                       !["images"] = <<OldImage("nginx", "1.0")>>])

FullDoc ==
    Doc({"resources", "namespace", "images", "patchesStrategicMerge"},
        [ZeroKus EXCEPT !["resources"] = <<<<".", "a.yaml">>, <<".", "base">>>>,
                        !["namespace"] = "default",
                        !["patchesStrategicMerge"] = <<"local patch">>,
                        !["images"] = <<OldImage("redis", "6"), OldImage("nginx", "1.0")>>])

TwiceDoc ==
    Doc({"resources", "images"},
        [ZeroKus EXCEPT !["resources"] = <<<<".", "a.yaml">>>>,
                        !["images"] = <<OldImage("nginx", "1.0"), OldImage("nginx", "0.9")>>])

BrokenDoc == [valid |-> FALSE, keys |-> {}, val |-> ZeroKus]

\* The descriptor already in the target directory: none, or one file under a
\* recognized name with its document.
Descriptors ==
    {[name |-> "", doc |-> EmptyDoc]} \cup
    {[name |-> DefaultKustomizationFileName, doc |-> d] :
        d \in {PlainDoc, ImageDoc, FullDoc, TwiceDoc, BrokenDoc}} \cup
    {[name |-> n, doc |-> d] :
        n \in KustomizationNames \ {DefaultKustomizationFileName},
        d \in {PlainDoc, ImageDoc}}

FileStates == {"absent", "resources", "malformed"}

\* The directories below the target: base/ and base/deep/, each absent or
\* present with or without a kustomization file and a YAML file.
Trees ==
    { [a |-> a, base |-> base, b |-> b, baseK |-> baseK, deep |-> deep, c |-> c,
       deepK |-> deepK] :
        a \in FileStates, base \in BOOLEAN, b \in FileStates, baseK \in BOOLEAN,
        deep \in BOOLEAN, c \in FileStates, deepK \in BOOLEAN }

WellFormedTree(t) ==
    /\ (~t.base) => (t.b = "absent" /\ ~t.baseK /\ ~t.deep)
    /\ (~t.deep) => (t.c = "absent" /\ ~t.deepK)

\* With a descriptor already in the target directory nothing is scanned, and
\* two trees stand for all.
TreesFor(desc) ==
    IF desc.name = ""
    THEN {t \in Trees : WellFormedTree(t)}
    ELSE {t \in Trees : /\ WellFormedTree(t)
                        /\ t.a = "resources"
                        /\ t.b = (IF t.base THEN "malformed" ELSE "absent")
                        /\ t.baseK = t.base
                        /\ ~t.deep}

MkDisk(t, desc) ==
    LET Base == Join(Abs, "base")
        Deep == Join(Base, "deep") IN
    [p \in Paths |->
        IF p = Abs THEN "dir"
        ELSE IF p = Join(Abs, "README.md") THEN "other"
        ELSE IF p = Join(Abs, "a.yaml") THEN t.a
        ELSE IF p = Base THEN (IF t.base THEN "dir" ELSE "absent")
        ELSE IF p = Join(Base, "b.yaml") THEN t.b
        ELSE IF p = Join(Base, "kustomization.yml")
             THEN (IF t.baseK THEN "descriptor" ELSE "absent")
        ELSE IF p = Deep THEN (IF t.deep THEN "dir" ELSE "absent")
        ELSE IF p = Join(Deep, "c.yml") THEN t.c
        ELSE IF p = Join(Deep, "Kustomization")
             THEN (IF t.deepK THEN "descriptor" ELSE "absent")
        ELSE IF desc.name # "" /\ p = Join(Abs, desc.name) THEN "descriptor"
        ELSE "absent"]

MkDocs(desc) ==
    [n \in KustomizationNames |-> IF n = desc.name THEN desc.doc ELSE EmptyDoc]

InitGen(t, desc, spec) ==
    /\ disk = MkDisk(t, desc)
    /\ kdoc = MkDocs(desc)
    /\ kgSpec = spec
    /\ wpc = "idle"
    /\ kus = ZeroKus
    /\ imgIdx = 0
    /\ werr = NoErr
    /\ wcalls = 0
    /\ diskBefore = MkDisk(t, desc)
    /\ kdocBefore = MkDocs(desc)
    /\ scanned = FALSE
    /\ generated = FALSE
    /\ prevOk = FALSE
    /\ imgOp = "none"

GenInit ==
    /\ InitBuild
    /\ \E desc \in Descriptors :
         \E t \in TreesFor(desc), spec \in Specs : InitGen(t, desc, spec)

GenNext ==
    \/ WriteFileCall
    \/ Generate
    \/ ReadAndPatch
    \/ ImageStep
    \/ WriteBack

GenSpec == GenInit /\ [][GenNext]_vars


\* The builder is modelled on its own, beside an untouched target directory.
EmptyTree == [a |-> "resources", base |-> FALSE, b |-> "absent", baseK |-> FALSE,
              deep |-> FALSE, c |-> "absent", deepK |-> FALSE]

NoSpec == [targetNamespace |-> "", patches |-> <<>>, patchesStrategicMerge |-> <<>>,
           patchesJSON6902 |-> <<>>, images |-> <<>>]

Init == InitBuild /\ InitGen(EmptyTree, [name |-> "", doc |-> EmptyDoc], NoSpec)

Next ==
    \E w \in Workers :
        \/ Call(w)
        \/ CreateFs(w)
        \/ Lock(w)
        \/ Run(w)
        \/ RunDeferred(w)
        \/ Return(w)

Spec == Init /\ [][Next]_vars

\* Every started step of a call is eventually taken; sync.Mutex hands the
\* lock to a goroutine that keeps waiting for it (starvation mode).
Fairness ==
    \A w \in Workers :
        /\ WF_vars(CreateFs(w))
        /\ SF_vars(Lock(w))
        /\ WF_vars(Run(w))
        /\ WF_vars(RunDeferred(w))
        /\ WF_vars(Return(w))

FairSpec == Spec /\ Fairness
\* ------------------------------------------------------------------------
\* Properties of secureBuildKustomization
\* ------------------------------------------------------------------------

InEngine == {w \in Workers : pc[w] = "run"}

EngineHung(v) == pc[v] = "run" /\ ~args[v].terminates

\* C1: at most one call is inside krusty's Run at any moment, and the call
\* that is there holds the locked kustomizeBuildMutex.
C1_MutualExclusion ==
    /\ Cardinality(InEngine) <= 1
    /\ Cardinality({w \in Workers : Holding(w)}) <= 1
    /\ \A w \in InEngine : Holding(w) /\ kustomizeBuildMutex = "locked"

C1_Witness ==
    \E w, v \in Workers :
        /\ w # v
        /\ pc[w] = "run"
        /\ pc[v] = "lock"
        /\ args[w].root # args[v].root

\* C2: a call that returned does not hold the mutex, whatever its exit path;
\* with no call in progress the mutex is unlocked; a call that failed to
\* build its filesystem boundary never locked it.
C2_ReleasedOnReturn ==
    /\ \A w \in Workers : pc[w] \in {"idle", "returned"} => ~Holding(w)
    /\ (\A w \in Workers : ~InCall(w)) => kustomizeBuildMutex = "unlocked"
    /\ \A w \in Workers :
         (pc[w] = "returned" /\ fs[w] = Nil) => (~everHeld[w] /\ err[w] # NoError)

C2_Witness ==
    \E w, v \in Workers :
        /\ pc[w] = "returned" /\ panicked[w] /\ everHeld[w]
        /\ pc[v] = "returned" /\ ~panicked[v] /\ everHeld[v] /\ err[v] # NoError
        /\ kustomizeBuildMutex = "unlocked"

\* C3: a panic of the engine never leaves secureBuildKustomization: the
\* process is never ended by it, and the call returns a nil result and the
\* error "recovered from kustomize build panic: <panic value>".
C3_PanicRecovered ==
    /\ ~crashed
    /\ \A w \in Workers :
         (pc[w] = "returned" /\ panicked[w]) =>
            /\ result[w] = Nil
            /\ Len(err[w]) = 2
            /\ err[w][1] = "recovered from kustomize build panic: "
            /\ err[w][2] = KustomizerRun(fs[w], args[w].dirPath,
                                         args[w].doLegacyResourceSort).value

C3_Witness ==
    \E w \in Workers : pc[w] = "returned" /\ panicked[w] /\ panicking[w] = NoPanic

\* C4 as stated: a call begun after a recovered panic completes, provided
\* its own engine invocation terminates.
C4_CompletesIfOwnEngineTerminates ==
    \A w \in Workers :
        (afterPanic[w] /\ InCall(w) /\ args[w].terminates) ~> (pc[w] = "returned")

\* C4 as amended: a call begun after a recovered panic completes, provided
\* its own engine invocation terminates, unless the engine invocation of a
\* call holding the mutex never returns.
C4_CompletesUnlessEngineHangs ==
    \A w \in Workers :
        (afterPanic[w] /\ InCall(w) /\ args[w].terminates)
            ~> (pc[w] = "returned" \/ \E v \in Workers : EngineHung(v))

C4_Witness ==
    \E w, v \in Workers :
        /\ w # v
        /\ pc[v] = "returned" /\ panicked[v]
        /\ pc[w] = "returned" /\ afterPanic[w] /\ everHeld[w] /\ ~panicked[w]

\* C9: the engine is handed the strict boundary exactly when
\* allowRemoteBases is false and the remote-capable one exactly when it is
\* true; a directory referencing a remote base then fails to build without
\* the flag and builds with it.
C9_BoundaryFollowsFlag ==
    \A w \in Workers :
        /\ (fs[w] # Nil) =>
              (fs[w] = IF args[w].allowRemoteBases
                       THEN "MakeFsOnDiskSecureBuild" ELSE "MakeFsOnDiskSecure")
        /\ (pc[w] \in {"run", "defers"}) => fs[w] # Nil
        /\ (pc[w] = "returned" /\ args[w].dirPath \in RemoteBaseDirs) =>
              IF args[w].allowRemoteBases
              THEN err[w] = NoError /\ result[w] # Nil
              ELSE err[w] # NoError /\ result[w] = Nil

C9_Witness ==
    \E w, v \in Workers :
        /\ pc[w] = "returned" /\ pc[v] = "returned"
        /\ args[w].dirPath \in RemoteBaseDirs /\ args[v].dirPath = args[w].dirPath
        /\ args[w].allowRemoteBases /\ ~args[v].allowRemoteBases
        /\ err[w] = NoError /\ err[v] # NoError
\* ------------------------------------------------------------------------
\* Properties of WriteFile and generateKustomization
\* ------------------------------------------------------------------------

IsPrefix(s, t) == Len(s) <= Len(t) /\ SubSeq(t, 1, Len(s)) = s

\* A path as a resource entry: relative to the target directory, under ".".
Rel(path) == <<".">> \o SubSeq(path, Len(Abs) + 1, Len(path))

\* The path lies beneath a sub-directory that holds a kustomization file.
Shadowed(d, path) ==
    \E q \in Dirs \ {Abs} :
        /\ IsPrefix(q, path) /\ q # path
        /\ HasKustomizationFile(d, q)

YamlExtensions == {".yaml", ".yml"}

\* The YAML files the walk reaches that do not decode.
MalformedWalked(d) ==
    {p \in Paths : /\ Entry(d, p) = "malformed"
                   /\ Ext(p) \in YamlExtensions
                   /\ ~Shadowed(d, p)}

\* Lines 102-114 as a whole: the loop over Spec.Images.
RECURSIVE ApplyImages(_, _)
ApplyImages(images, overrides) ==
    IF overrides = <<>> THEN images
    ELSE ApplyImages(ApplyImage(images, Head(overrides)), Tail(overrides))

\* Lines 65-116 as a whole: the descriptor WriteFile writes for a document.
Overridden(doc, spec) ==
    LET k == ApplyNamespaceAndPatches(Unmarshal(doc, NewKus), spec) IN
    Marshal([k EXCEPT !["images"] = ApplyImages(@, spec.images)])

ExistingNames(d) == {n \in KustomizationNames : IsFile(d, Join(Abs, n))}

\* C5: with a (well-formed) descriptor already in the target directory under
\* any recognized filename, WriteFile skips generation, applies the override
\* spec to that descriptor and returns success.
C5_ExistingDescriptorOverridden ==
    ( /\ wpc = "done"
      /\ ExistingNames(diskBefore) # {}
      /\ \A n \in ExistingNames(diskBefore) : kdocBefore[n].valid )
    => /\ ~scanned
       /\ werr = NoErr
       /\ \A n \in ExistingNames(diskBefore) :
             kdoc[n] = Overridden(kdocBefore[n], kgSpec)

\* C5 for the default filename only: what the code does do.
C5_DefaultNameOverridden ==
    ( /\ wpc = "done"
      /\ IsFile(diskBefore, KFile)
      /\ kdocBefore[DefaultKustomizationFileName].valid )
    => /\ ~scanned
       /\ werr = NoErr
       /\ kdoc[DefaultKustomizationFileName] =
             Overridden(kdocBefore[DefaultKustomizationFileName], kgSpec)

\* C6: when the scan reaches a YAML file that does not decode, WriteFile
\* returns the decode error naming such a path, and nothing on disk has
\* changed: no kustomization.yaml was created or written.
C6_MalformedFailsScan ==
    ( /\ wpc = "done"
      /\ ~HasKustomizationFile(diskBefore, Abs)
      /\ MalformedWalked(diskBefore) # {} )
    => /\ werr.kind = "failed to decode Kubernetes YAML from"
       /\ werr.path \in MalformedWalked(diskBefore)
       /\ disk = diskBefore
       /\ kdoc = kdocBefore
       /\ ~IsFile(disk, KFile)

C6_Witness ==
    /\ wpc = "done"
    /\ scanned
    /\ werr.kind = "failed to decode Kubernetes YAML from"
    /\ werr.path = Join(Join(Join(Abs, "base"), "deep"), "c.yml")
    /\ Entry(disk, Join(Abs, "a.yaml")) = "resources"
    /\ Entry(disk, Join(Join(Abs, "base"), "b.yaml")) = "resources"

\* C7: a pass of the image loop whose override names an image already in
\* kus.Images replaces that entry where it stands, the length and all other
\* entries unchanged; otherwise it appends exactly one entry at the end.
C7_ImageReplacedInPlace ==
    [][ (wpc = "images" /\ imgIdx' = imgIdx + 1) =>
          LET image == kgSpec.images[imgIdx]
              old == kus["images"]
              new == kus'["images"]
              want == [name |-> image.name, newName |-> image.newName,
                       newTag |-> image.newTag, digest |-> image.digest]
              same == {i \in 1..Len(old) : old[i].name = image.name} IN
          IF same # {}
          THEN /\ Len(new) = Len(old)
               /\ \E i \in same :
                    /\ new[i] = want
                    /\ \A j \in 1..Len(old) : j # i => new[j] = old[j]
               /\ Cardinality({i \in 1..Len(new) : new[i].name = image.name})
                    = Cardinality(same)
          ELSE new = Append(old, want) ]_vars

C7_Witness ==
    /\ wpc = "images"
    /\ imgOp = "replaced"
    /\ imgIdx = 3
    /\ kgSpec.images[1].name = kgSpec.images[2].name
    /\ Len(kus["images"]) = 2
    /\ kus["images"][2].name = "nginx"
    /\ kus["images"][2].newTag = kgSpec.images[2].newTag
    /\ kus["images"][1] = OldImage("redis", "6")

\* C8: in a generated resource list, a sub-directory the walk reaches that
\* holds a kustomization file is listed exactly once, as the directory, and
\* nothing beneath it is listed; a sub-directory without one is not listed
\* and the resource files in it are.
C8_NestedDescriptorListedOnce ==
    generated =>
        LET res == kdoc[DefaultKustomizationFileName].val["resources"]
            listed == {res[i] : i \in 1..Len(res)} IN
        \A p \in Dirs \ {Abs} :
            Entry(disk, p) = "dir" =>
                IF Shadowed(disk, p)
                THEN \A r \in listed : ~IsPrefix(Rel(p), r)
                ELSE IF HasKustomizationFile(disk, p)
                THEN /\ Cardinality({i \in 1..Len(res) : res[i] = Rel(p)}) = 1
                     /\ \A r \in listed : IsPrefix(Rel(p), r) => r = Rel(p)
                ELSE /\ Rel(p) \notin listed
                     /\ \A i \in 1..Len(ChildNames(p)) :
                          LET f == Join(p, ChildNames(p)[i]) IN
                          (Entry(disk, f) = "resources" /\ Ext(f) \in YamlExtensions)
                              => Rel(f) \in listed

C8_Witness ==
    /\ generated
    /\ wpc = "read"
    /\ Entry(disk, Join(Join(Abs, "base"), "b.yaml")) = "resources"
    /\ ~HasKustomizationFile(disk, Join(Abs, "base"))
    /\ Entry(disk, Join(Join(Join(Abs, "base"), "deep"), "Kustomization")) = "descriptor"
    /\ Entry(disk, Join(Join(Join(Abs, "base"), "deep"), "c.yml")) # "absent"
    /\ kdoc[DefaultKustomizationFileName].val["resources"] =
          <<<<".", "a.yaml">>, <<".", "base", "b.yaml">>, <<".", "base", "deep">>>>

SecondCallDone == wpc = "done" /\ wcalls >= 2 /\ prevOk /\ werr = NoErr

\* C10 as stated: a second WriteFile with the same spec leaves the
\* descriptor equal to the one the first call produced.
C10_Idempotent == SecondCallDone => (kdoc = kdocBefore /\ disk = diskBefore)

\* C10 as amended: a second WriteFile with the same spec leaves resources,
\* namespace, apiVersion, kind and images as the first call produced them,
\* and appends the spec's patches of each kind once more; the descriptor is
\* the same when the spec holds no patches.
C10_IdempotentButForPatches ==
    SecondCallDone =>
        LET a == kdoc[DefaultKustomizationFileName].val
            b == kdocBefore[DefaultKustomizationFileName].val
            Grown(x, y, n) == Len(x) = Len(y) + n /\ SubSeq(x, 1, Len(y)) = y IN
        /\ disk = diskBefore
        /\ \A f \in {"apiVersion", "kind", "namespace", "resources", "images"} :
              a[f] = b[f]
        /\ Grown(a["patches"], b["patches"], Len(kgSpec.patches))
        /\ Grown(a["patchesStrategicMerge"], b["patchesStrategicMerge"],
                 Len(kgSpec.patchesStrategicMerge))
        /\ Grown(a["patchesJson6902"], b["patchesJson6902"],
                 Len(kgSpec.patchesJSON6902))
        /\ ( /\ kgSpec.patches = <<>>
             /\ kgSpec.patchesStrategicMerge = <<>>
             /\ kgSpec.patchesJSON6902 = <<>> ) => kdoc = kdocBefore

C10_Witness ==
    /\ SecondCallDone
    /\ generated
    /\ kgSpec.patches # <<>>
    /\ Len(kgSpec.images) = 2
    /\ kgSpec.images[1].name = kgSpec.images[2].name
    /\ kgSpec.targetNamespace # ""
    /\ Len(kdoc[DefaultKustomizationFileName].val["patches"]) = 2
====
